---------------------------- MODULE Spec2Model ----------------------------
(***************************************************************************)
(* A model of the aiogram polling template: configuration loading          *)
(* (app/config.py), the application lifecycle of main() with its startup   *)
(* and shutdown hooks (app/__main__.py) and the router registration        *)
(* (app/bot/routes/__init__.py).                                           *)
(*                                                                         *)
(* Three specifications share the variables:                               *)
(*   Spec          the lifecycle: main(), on_startup, polling, on_shutdown *)
(*   SpecConfig    load_config() and the derived connection strings        *)
(*   SpecDispatch  an update travelling through the included routers       *)
(***************************************************************************)
EXTENDS Integers, Sequences, FiniteSets, TLC

VARIABLES
    env,          \* the process environment after env.read_env()
    loaded,       \* result of load_config(): NotLoaded, a Config or an error
    dsnOut,       \* last value returned by RedisConfig.dsn()
    urlOut,       \* last value returned by DatabaseConfig.url(driver)
    pc,           \* where main() stands
    ip,           \* index of the next statement of main() / on_shutdown()
    awaiting,     \* on_shutdown: the current awaited call has been issued
    log,          \* the calls made so far, with their outcome
    db,           \* Database handle: "none", "constructed", "open", "closed"
    storage,      \* RedisStorage handle: "none", "open"
    session,      \* bot.session: "none", "open", "closed"
    dp,           \* the Dispatcher: hooks, middlewares and routers registered
    fetched,      \* number of updates fetched by the poll loop
    inflight,     \* handler tasks in flight: task id -> position
    usedClosed,   \* handles a handler task used after on_shutdown closed them
    ev,           \* SpecDispatch: the update being dispatched
    idx,          \* SpecDispatch: index of the next router to try
    evaluated,    \* SpecDispatch: routers whose matchers were evaluated
    handledBy,    \* SpecDispatch: routers that consumed the update
    prev          \* SpecDispatch: the previous update and its winner

vars == <<env, loaded, dsnOut, urlOut, pc, ip, awaiting, log, db, storage,
          session, dp, fetched, inflight, usedClosed, ev, idx, evaluated,
          handledBy, prev>>

configVars == <<env, loaded, dsnOut, urlOut>>
lifeVars == <<pc, ip, awaiting, log, db, storage, session, dp, fetched,
              inflight, usedClosed>>
dispatchVars == <<ev, idx, evaluated, handledBy, prev>>

(***************************************************************************)
(* Bounds of the model.                                                    *)
(***************************************************************************)
MaxDeviations == 2   \* variables of an environment that differ from GoodEnv
MaxUpdates == 2      \* updates the poll loop fetches in one run

(***************************************************************************)
(* Text.  An environment value is a sequence of characters; Python strings *)
(* are TLA+ strings.                                                       *)
(***************************************************************************)
Digits == <<"0", "1", "2", "3", "4", "5", "6", "7", "8", "9">>

RECURSIVE Join(_)
Join(cs) == IF cs = <<>> THEN "" ELSE Head(cs) \o Join(Tail(cs))

IsDigit(c) == \E d \in 1..10 : Digits[d] = c

DigitVal(c) == (CHOOSE d \in 1..10 : Digits[d] = c) - 1

AllDigits(cs) == cs # <<>> /\ \A i \in 1..Len(cs) : IsDigit(cs[i])

\* int(text) accepts an optional sign followed by decimal digits
IsIntText(cs) ==
    /\ cs # <<>>
    /\ IF Head(cs) \in {"-", "+"} THEN AllDigits(Tail(cs)) ELSE AllDigits(cs)

RECURSIVE DigitsVal(_, _)
DigitsVal(cs, acc) ==
    IF cs = <<>> THEN acc ELSE DigitsVal(Tail(cs), acc * 10 + DigitVal(Head(cs)))

ParseInt(cs) ==
    IF Head(cs) = "-" THEN 0 - DigitsVal(Tail(cs), 0)
    ELSE IF Head(cs) = "+" THEN DigitsVal(Tail(cs), 0)
    ELSE DigitsVal(cs, 0)

RECURSIVE NatToStr(_)
NatToStr(n) ==
    IF n < 10 THEN Digits[n + 1] ELSE NatToStr(n \div 10) \o Digits[(n % 10) + 1]

\* f"{n}" for an int
IntToStr(n) == IF n < 0 THEN "-" \o NatToStr(0 - n) ELSE NatToStr(n)

(***************************************************************************)
(* app/config.py                                                           *)
(***************************************************************************)
\* the variables in the order load_config() reads them
FieldOrder ==
    <<"BOT_TOKEN", "BOT_DEV_ID", "REDIS_HOST", "REDIS_PORT", "REDIS_DB",
      "DB_HOST", "DB_PORT", "DB_USERNAME", "DB_PASSWORD", "DB_DATABASE">>

Names == {FieldOrder[i] : i \in 1..Len(FieldOrder)}

\* the variables read with env.int(); the others are read with env.str()
IntNames == {"BOT_DEV_ID", "REDIS_PORT", "REDIS_DB", "DB_PORT"}

Unset == [set |-> FALSE, text |-> <<>>]
Text(cs) == [set |-> TRUE, text |-> cs]

\* env.str(name): the value, or an error when the variable is not set
env_str(e, name) ==
    IF ~e[name].set THEN [ok |-> FALSE, error |-> name, why |-> "not set"]
    ELSE [ok |-> TRUE, value |-> Join(e[name].text)]

\* env.int(name): the parsed value, or an error when unset or not an integer
env_int(e, name) ==
    IF ~e[name].set THEN [ok |-> FALSE, error |-> name, why |-> "not set"]
    ELSE IF ~IsIntText(e[name].text)
         THEN [ok |-> FALSE, error |-> name, why |-> "invalid"]
         ELSE [ok |-> TRUE, value |-> ParseInt(e[name].text)]

Read(e, name) == IF name \in IntNames THEN env_int(e, name) ELSE env_str(e, name)

\* the first read, in the order of FieldOrder from i on, that raises; 0 if none
RECURSIVE FirstRaise(_, _)
FirstRaise(e, i) ==
    IF i > Len(FieldOrder) THEN 0
    ELSE IF ~Read(e, FieldOrder[i]).ok THEN i
    ELSE FirstRaise(e, i + 1)

NotLoaded == [state |-> "not loaded"]

MkConfig(e) ==
    [state |-> "config",
     bot |-> [TOKEN |-> env_str(e, "BOT_TOKEN").value,
              DEV_ID |-> env_int(e, "BOT_DEV_ID").value],
     redis |-> [HOST |-> env_str(e, "REDIS_HOST").value,
                PORT |-> env_int(e, "REDIS_PORT").value,
                DB |-> env_int(e, "REDIS_DB").value],
     database |-> [HOST |-> env_str(e, "DB_HOST").value,
                   PORT |-> env_int(e, "DB_PORT").value,
                   USERNAME |-> env_str(e, "DB_USERNAME").value,
                   PASSWORD |-> env_str(e, "DB_PASSWORD").value,
                   DATABASE |-> env_str(e, "DB_DATABASE").value]]

\* a plausible slip: unset string variables default to "" instead of raising
load_config_defaulting(e) ==
    LET f == [n \in Names |->
                 IF n \notin IntNames /\ ~e[n].set THEN Text(<<>>) ELSE e[n]]
        k == FirstRaise(f, 1)
    IN  IF k = 0 THEN MkConfig(f)
        ELSE [state |-> "error", error |-> FieldOrder[k],
              why |-> Read(f, FieldOrder[k]).why]

\* load_config(): the arguments are evaluated in source order and the first
\* read that raises ends the call; no Config is built then
load_config(e) ==
    LET k == FirstRaise(e, 1)
    IN  IF k = 0 THEN MkConfig(e)
        ELSE [state |-> "error", error |-> FieldOrder[k],
              why |-> Read(e, FieldOrder[k]).why]

\* a plausible slip: PORT and DB exchanged in the f-string
dsn_swapped(r) ==
    "redis://" \o r.HOST \o ":" \o IntToStr(r.DB) \o "/" \o IntToStr(r.PORT)

\* RedisConfig.dsn()
dsn(r) ==
    "redis://" \o r.HOST \o ":" \o IntToStr(r.PORT) \o "/" \o IntToStr(r.DB)

DefaultDriver == "mysql+aiomysql"

\* a plausible slip: the driver argument ignored in favour of the default
url_fixed_driver(d, driver) ==
    DefaultDriver \o "://" \o d.USERNAME \o ":" \o d.PASSWORD \o "@" \o d.HOST
        \o ":" \o IntToStr(d.PORT) \o "/" \o d.DATABASE

\* DatabaseConfig.url(driver)
url(d, driver) ==
    driver \o "://" \o d.USERNAME \o ":" \o d.PASSWORD \o "@" \o d.HOST
        \o ":" \o IntToStr(d.PORT) \o "/" \o d.DATABASE

(***************************************************************************)
(* The environments the model draws from.                                  *)
(***************************************************************************)
GoodEnv ==
    [n \in Names |->
        CASE n = "BOT_TOKEN" -> Text(<<"1", ":", "A">>)
          [] n = "BOT_DEV_ID" -> Text(<<"4", "2">>)
          [] n = "REDIS_HOST" ->
                Text(<<"l", "o", "c", "a", "l", "h", "o", "s", "t">>)
          [] n = "REDIS_PORT" -> Text(<<"6", "3", "7", "9">>)
          [] n = "REDIS_DB" -> Text(<<"0">>)
          [] n = "DB_HOST" -> Text(<<"d", "b">>)
          [] n = "DB_PORT" -> Text(<<"3", "3", "0", "6">>)
          [] n = "DB_USERNAME" -> Text(<<"u">>)
          [] n = "DB_PASSWORD" -> Text(<<"p", "w">>)
          [] n = "DB_DATABASE" -> Text(<<"b", "o", "t">>)]

\* other values a variable may hold
OtherValues(n) ==
    IF n \in IntNames
    THEN {Unset, Text(<<"x">>), Text(<<>>), Text(<<"0", "8">>),
          Text(<<"-", "7">>)}
    ELSE {Unset, Text(<<>>), Text(<<"4">>)}

AllOtherValues == UNION {OtherValues(n) : n \in Names}

\* GoodEnv with every subset of the variables unset
MissingEnvs ==
    {[n \in Names |-> IF n \in D THEN Unset ELSE GoodEnv[n]] : D \in SUBSET Names}

\* GoodEnv with at most MaxDeviations variables holding another value
DeviantEnvs ==
    UNION {
        {[n \in Names |-> IF n \in D THEN f[n] ELSE GoodEnv[n]] :
            f \in {g \in [D -> AllOtherValues] :
                      \A n \in D : g[n] \in OtherValues(n)}} :
        D \in {S \in SUBSET Names : Cardinality(S) <= MaxDeviations}}

Envs == MissingEnvs \cup DeviantEnvs

Drivers == {"mysql+aiomysql", "sqlite+aiosqlite"}
NoString == "(none)"

Omitted == "(omitted)"

(***************************************************************************)
(* Idle values of the variables a specification does not use.              *)
(***************************************************************************)
NoDispatcher ==
    [startup |-> <<>>, shutdown |-> <<>>, middlewares |-> FALSE,
     routers |-> <<>>]

LifeIdle ==
    /\ pc = "idle" /\ ip = 0 /\ awaiting = FALSE /\ log = <<>>
    /\ db = "none" /\ storage = "none" /\ session = "none"
    /\ dp = NoDispatcher /\ fetched = 0 /\ inflight = <<>>
    /\ usedClosed = {}

NoEvent == [kind |-> "none", accepts |-> {}]
NoPrev == [accepts |-> {}, winner |-> {}, seen |-> FALSE]

DispatchIdle ==
    /\ ev = NoEvent /\ idx = 0 /\ evaluated = <<>> /\ handledBy = <<>>
    /\ prev = NoPrev

(***************************************************************************)
(* SpecConfig: load_config() on an environment, then the derived strings.  *)
(***************************************************************************)
ConfigInit ==
    /\ env \in Envs
    /\ loaded = NotLoaded
    /\ dsnOut = NoString
    /\ urlOut = [driver |-> Omitted, value |-> NoString]
    /\ LifeIdle
    /\ DispatchIdle

LoadConfig ==
    /\ loaded = NotLoaded
    /\ loaded' = load_config(env)
    /\ UNCHANGED <<env, dsnOut, urlOut, lifeVars, dispatchVars>>

CallDsn ==
    /\ loaded.state = "config"
    /\ dsnOut' = dsn(loaded.redis)
    /\ UNCHANGED <<env, loaded, urlOut, lifeVars, dispatchVars>>

\* url() is called with a driver or without one (the default applies)
CallUrl ==
    /\ loaded.state = "config"
    /\ \E a \in Drivers \cup {Omitted} :
          urlOut' = [driver |-> a,
                     value |-> url(loaded.database,
                                   IF a = Omitted THEN DefaultDriver ELSE a)]
    /\ UNCHANGED <<env, loaded, dsnOut, lifeVars, dispatchVars>>

ConfigNext == LoadConfig \/ CallDsn \/ CallUrl

SpecConfig == ConfigInit /\ [][ConfigNext]_vars

\* the variables whose read raises in environment e
BadNames(e) ==
    {n \in Names : ~e[n].set \/ (n \in IntNames /\ ~IsIntText(e[n].text))}

IndexOf(n) == CHOOSE i \in 1..Len(FieldOrder) : FieldOrder[i] = n

(***************************************************************************)
(* C7: load_config is all-or-nothing.  For every environment in which at   *)
(* least one of the ten variables is unset or (for an integer variable)    *)
(* not an integer, load_config ends with an error and builds no Config;    *)
(* the error names the first such variable in the order the source reads   *)
(* them (so the outcome is determined by the environment); a Config is     *)
(* returned only when all ten reads succeed, and it then holds all ten     *)
(* values.                                                                 *)
(***************************************************************************)
C7_AllOrNothing ==
    loaded # NotLoaded =>
        LET bad == BadNames(env)
        IN  /\ bad # {} =>
                /\ loaded.state = "error"
                /\ DOMAIN loaded = {"state", "error", "why"}
                /\ loaded.error \in bad
                /\ \A j \in 1..(IndexOf(loaded.error) - 1) : FieldOrder[j] \notin bad
                /\ loaded.why = IF env[loaded.error].set THEN "invalid" ELSE "not set"
            /\ loaded.state = "config" =>
                /\ bad = {}
                /\ \A n \in Names : env[n].set
                /\ loaded.bot.TOKEN = Join(env["BOT_TOKEN"].text)
                /\ loaded.bot.DEV_ID = ParseInt(env["BOT_DEV_ID"].text)
                /\ loaded.redis.HOST = Join(env["REDIS_HOST"].text)
                /\ loaded.redis.PORT = ParseInt(env["REDIS_PORT"].text)
                /\ loaded.redis.DB = ParseInt(env["REDIS_DB"].text)
                /\ loaded.database.HOST = Join(env["DB_HOST"].text)
                /\ loaded.database.PORT = ParseInt(env["DB_PORT"].text)
                /\ loaded.database.USERNAME = Join(env["DB_USERNAME"].text)
                /\ loaded.database.PASSWORD = Join(env["DB_PASSWORD"].text)
                /\ loaded.database.DATABASE = Join(env["DB_DATABASE"].text)
            /\ bad = {} => loaded.state = "config"

\* load_config has failed on an environment with several variables missing,
\* among them string variables only
C7_Witness ==
    /\ loaded.state = "error"
    /\ Cardinality({n \in Names : ~env[n].set}) >= 2
    /\ \A n \in IntNames : env[n].set

\* a decimal text that int() and f"{...}" map back to itself
Canonical(cs) ==
    /\ IsIntText(cs)
    /\ Head(cs) # "+"
    /\ LET ds == IF Head(cs) = "-" THEN Tail(cs) ELSE cs
       IN  /\ Head(ds) = "0" => Len(ds) = 1 /\ Head(cs) # "-"

(***************************************************************************)
(* C8: the derived connection strings follow the documented templates.     *)
(* dsn() is "redis://" HOST ":" PORT "/" DB and url(driver) is             *)
(* driver "://" USERNAME ":" PASSWORD "@" HOST ":" PORT "/" DATABASE, the  *)
(* driver being "mysql+aiomysql" when omitted; the integers appear in      *)
(* decimal, which for a canonically written variable is the text of the    *)
(* variable itself, e.g. localhost, 6379, 0 gives redis://localhost:6379/0 *)
(***************************************************************************)
C8_Templates ==
    /\ dsnOut # NoString =>
        /\ dsnOut = "redis://" \o loaded.redis.HOST \o ":"
                        \o IntToStr(loaded.redis.PORT) \o "/"
                        \o IntToStr(loaded.redis.DB)
        /\ (Canonical(env["REDIS_PORT"].text) /\ Canonical(env["REDIS_DB"].text)) =>
              dsnOut = "redis://" \o Join(env["REDIS_HOST"].text) \o ":"
                          \o Join(env["REDIS_PORT"].text) \o "/"
                          \o Join(env["REDIS_DB"].text)
        /\ env = GoodEnv => dsnOut = "redis://localhost:6379/0"
    /\ urlOut.value # NoString =>
        LET drv == IF urlOut.driver = Omitted THEN "mysql+aiomysql"
                   ELSE urlOut.driver
        IN  /\ urlOut.value = drv \o "://" \o loaded.database.USERNAME \o ":"
                                \o loaded.database.PASSWORD \o "@"
                                \o loaded.database.HOST \o ":"
                                \o IntToStr(loaded.database.PORT) \o "/"
                                \o loaded.database.DATABASE
            /\ Canonical(env["DB_PORT"].text) =>
                  urlOut.value = drv \o "://" \o Join(env["DB_USERNAME"].text)
                                    \o ":" \o Join(env["DB_PASSWORD"].text)
                                    \o "@" \o Join(env["DB_HOST"].text)
                                    \o ":" \o Join(env["DB_PORT"].text)
                                    \o "/" \o Join(env["DB_DATABASE"].text)
            /\ (env = GoodEnv /\ urlOut.driver = Omitted) =>
                  urlOut.value = "mysql+aiomysql://u:pw@db:3306/bot"

\* both strings have been derived, the URL with the driver omitted, from a
\* configuration whose Redis port differs from its Redis database index
C8_Witness ==
    /\ dsnOut # NoString
    /\ urlOut.value # NoString
    /\ urlOut.driver = Omitted
    /\ loaded.redis.PORT # loaded.redis.DB

(***************************************************************************)
(* app/bot/routes/__init__.py                                              *)
(***************************************************************************)
\* a plausible slip: the error router listed after the others
Routers_error_last ==
    <<"command", "callback", "message", "my_chat_member", "inline", "error">>

\* the routers in the order include() passes them to dp.include_routers
Routers ==
    <<"error", "command", "callback", "message", "my_chat_member", "inline">>

RouterNames == {Routers[i] : i \in 1..Len(Routers)}

\* a plausible slip: the routers included in the opposite order
include_reversed(d) ==
    [d EXCEPT !.routers =
        d.routers \o [i \in 1..Len(Routers) |-> Routers[Len(Routers) + 1 - i]]]

\* include(dp): the routers are appended to the dispatcher in list order
include(d) == [d EXCEPT !.routers = d.routers \o Routers]

(***************************************************************************)
(* app/__main__.py                                                         *)
(***************************************************************************)
\* a plausible slip: the webhook deleted before the commands are set up
MainSteps_webhook_first ==
    <<"load_config", "Database", "RedisStorage", "Bot", "Dispatcher",
      "startup_register", "shutdown_register", "middlewares_register",
      "routes_include", "db_init", "delete_webhook", "commands_setup",
      "start_polling">>

\* the statements of main(), in source order
MainSteps ==
    <<"load_config", "Database", "RedisStorage", "Bot", "Dispatcher",
      "startup_register", "shutdown_register", "middlewares_register",
      "routes_include", "db_init", "commands_setup", "delete_webhook",
      "start_polling">>

\* a plausible slip: the messaging session closed before the platform calls
ShutdownSteps_session_first ==
    <<"session_close", "send_stopped", "commands_delete", "webhook_delete",
      "db_close">>

\* a plausible slip: the database handle closed before the messaging session
ShutdownSteps_db_first ==
    <<"send_stopped", "commands_delete", "webhook_delete", "db_close",
      "session_close">>

\* the awaited calls of on_shutdown(), in source order
ShutdownSteps ==
    <<"send_stopped", "commands_delete", "webhook_delete", "session_close",
      "db_close">>

\* statements of main() that construct a client or await I/O and may raise
\* (load_config raises according to the environment)
MayRaise ==
    {"Database", "RedisStorage", "Bot", "db_init", "commands_setup",
     "delete_webhook"}

\* a plausible slip: a failure of db.init() caught and passed over
Propagates_db_init_swallowed(s) == s # "db_init"

\* main() has no try/except: an exception of any statement leaves main()
Propagates(s) == TRUE

\* on_shutdown() has no try/except: an exception of any await leaves the hook
ShutdownPropagates(s) == TRUE

Ok(s) == <<s, "ok">>
Raise(s) == <<s, "raise">>
Call(s) == <<s, "call">>

\* the effect of statement s of main() on the handles and the dispatcher
MainEffect(s) ==
    /\ db' = CASE s = "Database" -> "constructed"
               [] s = "db_init" -> "open"
               [] OTHER -> db
    /\ storage' = IF s = "RedisStorage" THEN "open" ELSE storage
    /\ dsnOut' = IF s = "RedisStorage" THEN dsn(loaded.redis) ELSE dsnOut
    /\ session' = IF s = "Bot" THEN "open" ELSE session
    /\ dp' = CASE s = "Dispatcher" ->
                    [startup |-> <<>>, shutdown |-> <<>>,
                     middlewares |-> FALSE, routers |-> <<>>]
               [] s = "startup_register" ->
                    [dp EXCEPT !.startup = Append(@, "on_startup")]
               [] s = "shutdown_register" ->
                    [dp EXCEPT !.shutdown = Append(@, "on_shutdown")]
               [] s = "middlewares_register" -> [dp EXCEPT !.middlewares = TRUE]
               [] s = "routes_include" -> include(dp)
               [] OTHER -> dp

LifeEnvs ==
    {GoodEnv,
     [GoodEnv EXCEPT !["BOT_TOKEN"] = Unset],
     [GoodEnv EXCEPT !["DB_PORT"] = Text(<<"x">>)]}

Init ==
    /\ env \in LifeEnvs
    /\ loaded = NotLoaded
    /\ dsnOut = NoString
    /\ urlOut = [driver |-> Omitted, value |-> NoString]
    /\ pc = "main" /\ ip = 1 /\ awaiting = FALSE /\ log = <<>>
    /\ db = "none" /\ storage = "none" /\ session = "none"
    /\ dp = NoDispatcher /\ fetched = 0 /\ inflight = <<>>
    /\ usedClosed = {}
    /\ DispatchIdle

\* config = load_config(), the first statement of main()
MainLoadConfig ==
    /\ pc = "main" /\ MainSteps[ip] = "load_config"
    /\ loaded' = load_config(env)
    /\ IF loaded'.state = "config"
       THEN /\ log' = Append(log, Ok("load_config"))
            /\ ip' = ip + 1 /\ pc' = pc
       ELSE /\ log' = Append(log, Raise("load_config"))
            /\ IF Propagates("load_config")
               THEN pc' = "failed" /\ ip' = ip
               ELSE pc' = pc /\ ip' = ip + 1
    /\ UNCHANGED <<env, dsnOut, urlOut, awaiting, db, storage, session, dp,
                   fetched, inflight, usedClosed, dispatchVars>>

\* any other statement of main() before start_polling
MainStep ==
    /\ pc = "main"
    /\ MainSteps[ip] \notin {"load_config", "start_polling"}
    /\ LET s == MainSteps[ip]
       IN  \E ok \in (IF s \in MayRaise THEN BOOLEAN ELSE {TRUE}) :
              IF ok
              THEN /\ MainEffect(s)
                   /\ log' = Append(log, Ok(s))
                   /\ ip' = ip + 1 /\ pc' = pc
              ELSE /\ log' = Append(log, Raise(s))
                   /\ IF Propagates(s)
                      THEN pc' = "failed" /\ ip' = ip
                      ELSE pc' = pc /\ ip' = ip + 1
                   /\ UNCHANGED <<db, storage, dsnOut, session, dp>>
    /\ UNCHANGED <<env, loaded, urlOut, awaiting, fetched, inflight,
                   usedClosed, dispatchVars>>

\* await dp.start_polling(bot, ...): the dispatcher takes over
StartPolling ==
    /\ pc = "main" /\ MainSteps[ip] = "start_polling"
    /\ log' = Append(log, Call("start_polling"))
    /\ pc' = "startup"
    /\ UNCHANGED <<configVars, ip, awaiting, db, storage, session, dp, fetched,
                   inflight, usedClosed, dispatchVars>>

\* on_startup(): announce "#BotStarted"; then the poll loop is entered
OnStartup ==
    /\ pc = "startup"
    /\ IF "on_startup" \in {dp.startup[i] : i \in 1..Len(dp.startup)}
       THEN \E ok \in BOOLEAN :
               IF ok
               THEN log' = Append(log, Ok("send_started")) /\ pc' = "polling"
               ELSE log' = Append(log, Raise("send_started")) /\ pc' = "failed"
       ELSE log' = log /\ pc' = "polling"
    /\ UNCHANGED <<configVars, ip, awaiting, db, storage, session, dp, fetched,
                   inflight, usedClosed, dispatchVars>>

\* one poll cycle: an update is fetched and its handling started as a task
Fetch ==
    /\ pc = "polling"
    /\ fetched < MaxUpdates
    /\ fetched' = fetched + 1
    /\ inflight' = Append(inflight, "middleware")
    /\ UNCHANGED <<configVars, pc, ip, awaiting, log, db, storage, session, dp,
                   usedClosed, dispatchVars>>

\* a handler task advances: the middleware opens a database session from
\* db.session, then the handler answers through the bot
HandlerStep ==
    /\ pc \in {"polling", "shutdown"}
    /\ \E t \in 1..Len(inflight) :
          \/ /\ inflight[t] = "middleware"
             /\ inflight' = [inflight EXCEPT ![t] = "handler"]
             /\ usedClosed' =
                   IF db = "closed" THEN usedClosed \cup {"db"} ELSE usedClosed
          \/ /\ inflight[t] = "handler"
             /\ inflight' = [inflight EXCEPT ![t] = "done"]
             /\ usedClosed' =
                   IF session = "closed" THEN usedClosed \cup {"session"}
                   ELSE usedClosed
    /\ UNCHANGED <<configVars, pc, ip, awaiting, log, db, storage, session, dp,
                   fetched, dispatchVars>>

\* the termination signal: polling stops and the shutdown hooks are emitted
StopSignal ==
    /\ pc = "polling"
    /\ pc' = "shutdown" /\ ip' = 1 /\ awaiting' = FALSE
    /\ log' = Append(log, <<"polling", "stopped">>)
    /\ UNCHANGED <<configVars, db, storage, session, dp, fetched, inflight,
                   usedClosed, dispatchVars>>

\* on_shutdown() issues its next awaited call
ShutdownCall ==
    /\ pc = "shutdown" /\ ~awaiting
    /\ "on_shutdown" \in {dp.shutdown[i] : i \in 1..Len(dp.shutdown)}
    /\ ip <= Len(ShutdownSteps)
    /\ log' = Append(log, Call(ShutdownSteps[ip]))
    /\ awaiting' = TRUE
    /\ UNCHANGED <<configVars, pc, ip, db, storage, session, dp, fetched,
                   inflight, usedClosed, dispatchVars>>

\* the awaited call of on_shutdown() returns or raises
ShutdownReturn ==
    /\ pc = "shutdown" /\ awaiting
    /\ LET s == ShutdownSteps[ip]
       IN  \E ok \in BOOLEAN :
              IF ok
              THEN /\ session' = IF s = "session_close" THEN "closed" ELSE session
                   /\ db' = IF s = "db_close" THEN "closed" ELSE db
                   /\ log' = Append(log, Ok(s))
                   /\ ip' = ip + 1
                   /\ pc' = IF ip = Len(ShutdownSteps) THEN "done" ELSE pc
              ELSE /\ log' = Append(log, Raise(s))
                   /\ IF ShutdownPropagates(s)
                      THEN pc' = "failed" /\ ip' = ip
                      ELSE /\ ip' = ip + 1
                           /\ pc' = IF ip = Len(ShutdownSteps) THEN "done" ELSE pc
                   /\ UNCHANGED <<session, db>>
    /\ awaiting' = FALSE
    /\ UNCHANGED <<configVars, storage, dp, fetched, inflight, usedClosed,
                   dispatchVars>>

Next ==
    \/ MainLoadConfig
    \/ MainStep
    \/ StartPolling
    \/ OnStartup
    \/ Fetch
    \/ HandlerStep
    \/ StopSignal
    \/ ShutdownCall
    \/ ShutdownReturn

Spec == Init /\ [][Next]_vars

(***************************************************************************)
(* The log: which calls were made, in which order, with which outcome.     *)
(***************************************************************************)
Has(e) == \E i \in 1..Len(log) : log[i] = e

Pos(e) == CHOOSE i \in 1..Len(log) : log[i] = e /\ \A j \in 1..(i - 1) : log[j] # e

Before(a, b) == Has(a) /\ Has(b) /\ Pos(a) < Pos(b)

TeardownOrder ==
    <<"send_stopped", "commands_delete", "webhook_delete", "session_close",
      "db_close">>

TeardownOps == {TeardownOrder[i] : i \in 1..Len(TeardownOrder)}

IsTeardownCall(e) == e[2] = "call" /\ e[1] \in TeardownOps

\* calls that go to the messaging platform through bot.session
PlatformOps ==
    {"send_started", "commands_setup", "delete_webhook", "send_stopped",
     "commands_delete", "webhook_delete"}

(***************************************************************************)
(* C1: best-effort teardown.  Once on_shutdown has started and the process *)
(* has come to its end, every teardown step (announce, deregister          *)
(* commands, delete webhook, close messaging session, close database       *)
(* handle) has been invoked, also when an earlier step failed, and the     *)
(* failure of a step is not raised further.                                *)
(***************************************************************************)
C1_BestEffortTeardown ==
    (Has(Call("send_stopped")) /\ pc \in {"done", "failed"}) =>
        /\ \A s \in TeardownOps : Has(Call(s))
        /\ pc = "done"

(***************************************************************************)
(* C2: on_shutdown issues its calls in the order announce, deregister      *)
(* commands, delete webhook, close messaging session, close database       *)
(* handle, each at most once; a call is issued only when the previous one  *)
(* has returned; after the messaging session has been closed the hook      *)
(* issues no call to the messaging platform; a hook that runs to its end   *)
(* has issued all five.                                                    *)
(***************************************************************************)
C2_ShutdownOrder ==
    LET calls == SelectSeq(log, IsTeardownCall)
    IN  /\ Len(calls) <= Len(TeardownOrder)
        /\ \A k \in 1..Len(calls) : calls[k] = Call(TeardownOrder[k])
        /\ \A p \in 1..Len(log) : \A k \in 2..Len(TeardownOrder) :
              log[p] = Call(TeardownOrder[k]) =>
                  p > 1 /\ log[p - 1] = Ok(TeardownOrder[k - 1])
        /\ \A p \in 1..Len(log) : \A q \in (p + 1)..Len(log) :
              log[p] = Ok("session_close") => log[q][1] \notin PlatformOps
        /\ pc = "done" => Len(calls) = Len(TeardownOrder)

\* the hook has run to its end
C2_Witness == pc = "done" /\ Has(Ok("db_close")) /\ Has(Ok("send_stopped"))

StartupOps == {"load_config", "db_init", "commands_setup", "delete_webhook"}

(***************************************************************************)
(* C3: no partial Running.  The poll loop is entered (and an update        *)
(* fetched) only after load_config, db.init, commands.setup and            *)
(* delete_webhook have all succeeded; when one of them raises, main() ends *)
(* in failure: start_polling is never called, no update is fetched and no  *)
(* handler runs.                                                           *)
(***************************************************************************)
C3_NoPartialRunning ==
    /\ (pc \in {"startup", "polling", "shutdown", "done"} \/ fetched > 0
            \/ Has(Call("start_polling"))) =>
          \A s \in StartupOps : Has(Ok(s))
    /\ \A s \in StartupOps :
          Has(Raise(s)) =>
              /\ pc = "failed"
              /\ fetched = 0 /\ inflight = <<>>
              /\ ~Has(Call("start_polling"))
              /\ ~Has(Ok("send_started"))

\* the command registration has failed after the database was initialised
C3_Witness ==
    Has(Ok("db_init")) /\ Has(Raise("commands_setup")) /\ pc = "failed"

(***************************************************************************)
(* C4: in-flight work versus shutdown.  Shutdown waits for the in-flight   *)
(* handlers before it closes the shared handles: whenever the messaging    *)
(* session or the database handle is closed no handler is still in flight, *)
(* and no handler ever uses a handle that on_shutdown has closed.          *)
(***************************************************************************)
C4_DrainBeforeClose ==
    /\ usedClosed = {}
    /\ (pc = "shutdown" /\ (session = "closed" \/ db = "closed")) =>
          \A t \in 1..Len(inflight) : inflight[t] = "done"

(***************************************************************************)
(* C5 as stated: the error router is the last of the included routers,     *)
(* every other router precedes it.                                         *)
(***************************************************************************)
C5_ErrorRouterLast ==
    dp.routers # <<>> =>
        /\ dp.routers[Len(dp.routers)] = "error"
        /\ \A i \in 1..(Len(dp.routers) - 1) : dp.routers[i] # "error"

(***************************************************************************)
(* C5 amended: the error router is the first of the included routers; the  *)
(* others follow it in the order command, callback, message,               *)
(* my_chat_member, inline, so no router precedes the error router.         *)
(***************************************************************************)
C5_ErrorRouterFirst ==
    dp.routers # <<>> =>
        /\ dp.routers[1] = "error"
        /\ \A i \in 2..Len(dp.routers) : dp.routers[i] # "error"
        /\ dp.routers =
              <<"error", "command", "callback", "message", "my_chat_member",
                "inline">>

\* the routers are included and the poll loop runs
C5_Witness == dp.routers # <<>> /\ pc = "polling" /\ fetched > 0

Acquire(h) ==
    CASE h = "db" -> Ok("Database")
      [] h = "storage" -> Ok("RedisStorage")
      [] h = "session" -> Ok("Bot")

Release(h) ==
    CASE h = "db" -> Ok("db_close")
      [] h = "storage" -> Ok("storage_close")
      [] h = "session" -> Ok("session_close")

Handles == {"db", "storage", "session"}

C10_StartupOrder ==
    /\ Has(Call("start_polling")) =>
          /\ Before(Ok("db_init"), Ok("commands_setup"))
          /\ Before(Ok("commands_setup"), Ok("delete_webhook"))
          /\ Before(Ok("delete_webhook"), Call("start_polling"))
    /\ \A o \in {"ok", "raise"} :
          Has(<<"send_started", o>>) =>
              /\ Before(Call("start_polling"), <<"send_started", o>>)
              /\ Before(Ok("db_init"), <<"send_started", o>>)
              /\ Before(Ok("commands_setup"), <<"send_started", o>>)
              /\ Before(Ok("delete_webhook"), <<"send_started", o>>)
    /\ (pc = "polling" \/ fetched > 0) => Has(Ok("send_started"))
    /\ \A s \in TeardownOps :
          Has(Call(s)) => Before(Call("start_polling"), Call(s))

\* the poll loop runs and has fetched an update
C10_Witness == pc = "polling" /\ fetched > 0 /\ Has(Ok("send_started"))

(***************************************************************************)
(* SpecDispatch: an update offered to the included routers, one router at  *)
(* a time in the order of dp.routers.  The matchers live in the router     *)
(* modules; an update is described by the set of routers whose matchers    *)
(* accept it.                                                              *)
(***************************************************************************)
DispatchInit ==
    /\ env = GoodEnv
    /\ loaded = NotLoaded
    /\ dsnOut = NoString
    /\ urlOut = [driver |-> Omitted, value |-> NoString]
    /\ pc = "polling" /\ ip = 0 /\ awaiting = FALSE /\ log = <<>>
    /\ db = "open" /\ storage = "open" /\ session = "open"
    /\ dp = include([startup |-> <<"on_startup">>, shutdown |-> <<"on_shutdown">>,
                     middlewares |-> TRUE, routers |-> <<>>])
    /\ fetched = 0 /\ inflight = <<>> /\ usedClosed = {}
    /\ DispatchIdle

\* the poll loop hands an update to the dispatcher
Feed ==
    /\ ev = NoEvent
    /\ \E a \in SUBSET RouterNames : ev' = [kind |-> "update", accepts |-> a]
    /\ idx' = 1 /\ evaluated' = <<>> /\ handledBy' = <<>>
    /\ UNCHANGED <<configVars, lifeVars, prev>>

\* the next router's matchers are evaluated; the first to accept handles it
TryRouter ==
    /\ ev.kind = "update" /\ handledBy = <<>> /\ idx <= Len(dp.routers)
    /\ evaluated' = Append(evaluated, dp.routers[idx])
    /\ IF dp.routers[idx] \in ev.accepts
       THEN handledBy' = Append(handledBy, dp.routers[idx]) /\ idx' = idx
       ELSE handledBy' = handledBy /\ idx' = idx + 1
    /\ UNCHANGED <<configVars, lifeVars, ev, prev>>

Dispatched == ev.kind = "update" /\ (handledBy # <<>> \/ idx > Len(dp.routers))

\* the update is discarded after dispatch
Discard ==
    /\ Dispatched
    /\ prev' = [accepts |-> ev.accepts, winner |-> handledBy, seen |-> TRUE]
    /\ ev' = NoEvent /\ idx' = 0 /\ evaluated' = <<>> /\ handledBy' = <<>>
    /\ UNCHANGED <<configVars, lifeVars>>

DispatchNext == Feed \/ TryRouter \/ Discard

SpecDispatch == DispatchInit /\ [][DispatchNext]_vars

IsPrefix(a, b) == Len(a) <= Len(b) /\ \A i \in 1..Len(a) : a[i] = b[i]

=============================================================================
